---- MODULE Spec2Model ----
\* A model of dtd-to-go: the DTD parser (DTDParser, kept in src/README.md
\* from line 132 on), the struct generator (src/struct_generator.go) and
\* the caller (main, src/unnamed/part_000).
\*
\* Text is modelled as what it is: a string is a sequence of one-character
\* strings, and every strings.* / regexp call of the source is an operator
\* over such sequences.
EXTENDS Integers, Sequences, FiniteSets, TLC

\* ---------------------------------------------------------------------
\* Literals of the source
\* ---------------------------------------------------------------------
KwElement == <<"<", "!", "E", "L", "E", "M", "E", "N", "T">>
KwAttlist == <<"<", "!", "A", "T", "T", "L", "I", "S", "T">>
KwEntity == <<"<", "!", "E", "N", "T", "I", "T", "Y">>
CommentOpen == <<"<", "!", "-", "-">>
Pcdata == <<"#", "P", "C", "D", "A", "T", "A">>
PcdataSpaced == <<"(", " ", "#", "P", "C", "D", "A", "T", "A", " ", ")">>
KwEmpty == <<"E", "M", "P", "T", "Y">>
KwAny == <<"A", "N", "Y">>
Required == <<"#", "R", "E", "Q", "U", "I", "R", "E", "D">>
Implied == <<"#", "I", "M", "P", "L", "I", "E", "D">>
GoString == <<"s", "t", "r", "i", "n", "g">>
GoStringSlice == <<"[", "]", "s", "t", "r", "i", "n", "g">>
Idrefs == <<"I", "D", "R", "E", "F", "S">>
Nmtokens == <<"N", "M", "T", "O", "K", "E", "N", "S">>
OmitEmpty == <<",", "o", "m", "i", "t", "e", "m", "p", "t", "y">>
AttrTag == <<",", "a", "t", "t", "r">>
XMLName == <<"X", "M", "L", "N", "a", "m", "e">>
XmlNameType == <<"x", "m", "l", ".", "N", "a", "m", "e">>
TextName == <<"T", "e", "x", "t">>
CharData == <<",", "c", "h", "a", "r", "d", "a", "t", "a">>
ContentName == <<"C", "o", "n", "t", "e", "n", "t">>
InnerXml == <<",", "i", "n", "n", "e", "r", "x", "m", "l">>
DefaultStructName == <<"E", "l", "e", "m", "e", "n", "t">>
DefaultFieldName == <<"F", "i", "e", "l", "d">>
DefaultPackage == <<"m", "a", "i", "n">>

LowerLetters == <<"a", "b", "c", "d", "e", "f", "g", "h", "i", "j", "k", "l", "m",
                  "n", "o", "p", "q", "r", "s", "t", "u", "v", "w", "x", "y", "z">>
UpperLetters == <<"A", "B", "C", "D", "E", "F", "G", "H", "I", "J", "K", "L", "M",
                  "N", "O", "P", "Q", "R", "S", "T", "U", "V", "W", "X", "Y", "Z">>
Digits == {"0", "1", "2", "3", "4", "5", "6", "7", "8", "9"}

\* ---------------------------------------------------------------------
\* The string functions the source calls
\* ---------------------------------------------------------------------
Range(s) == {s[i] : i \in 1..Len(s)}

\* unicode.IsSpace / the regexp class \s, on the characters a line can hold
WhiteSpace == {" ", "\t"}

\* the regexp class \w
WordChars == Range(LowerLetters) \cup Range(UpperLetters) \cup Digits \cup {"_"}

\* the regexp class [\w-]
NameChars == WordChars \cup {"-"}

\* the first index i >= from with s[i] in set (Len(s)+1 when there is none)
FirstIn(s, from, set) ==
    IF \E i \in from..Len(s) : s[i] \in set
    THEN CHOOSE i \in from..Len(s) : s[i] \in set /\ \A j \in from..(i-1) : s[j] \notin set
    ELSE Len(s) + 1

\* the first index i >= from with s[i] not in set (Len(s)+1 when there is none)
FirstNotIn(s, from, set) ==
    IF \E i \in from..Len(s) : s[i] \notin set
    THEN CHOOSE i \in from..Len(s) : s[i] \notin set /\ \A j \in from..(i-1) : s[j] \in set
    ELSE Len(s) + 1

\* the last index i with s[i] not in set (0 when there is none)
LastNotIn(s, set) ==
    IF \E i \in 1..Len(s) : s[i] \notin set
    THEN CHOOSE i \in 1..Len(s) : s[i] \notin set /\ \A j \in (i+1)..Len(s) : s[j] \in set
    ELSE 0

\* strings.Trim(s, cutset)
Trim(s, cutset) == SubSeq(s, FirstNotIn(s, 1, cutset), LastNotIn(s, cutset))

\* strings.TrimSpace
TrimSpace(s) == Trim(s, WhiteSpace)

\* strings.HasPrefix
HasPrefix(s, p) == Len(p) <= Len(s) /\ SubSeq(s, 1, Len(p)) = p

\* strings.HasSuffix
HasSuffix(s, p) == Len(p) <= Len(s) /\ SubSeq(s, Len(s) - Len(p) + 1, Len(s)) = p

\* strings.TrimPrefix
TrimPrefix(s, p) == IF HasPrefix(s, p) THEN SubSeq(s, Len(p) + 1, Len(s)) ELSE s

\* strings.TrimSuffix
TrimSuffix(s, p) == IF HasSuffix(s, p) THEN SubSeq(s, 1, Len(s) - Len(p)) ELSE s

\* the substring of s that starts at i is sub
MatchAt(s, i, sub) == i >= 1 /\ i + Len(sub) - 1 <= Len(s) /\ SubSeq(s, i, i + Len(sub) - 1) = sub

\* strings.Contains
Contains(s, sub) == \E i \in 1..(Len(s) + 1) : MatchAt(s, i, sub)

\* the first index i >= from where sub occurs in s (Len(s)+1 when there is none)
IndexFrom(s, from, sub) ==
    IF \E i \in from..Len(s) : MatchAt(s, i, sub)
    THEN CHOOSE i \in from..Len(s) : MatchAt(s, i, sub) /\ \A j \in from..(i-1) : ~MatchAt(s, j, sub)
    ELSE Len(s) + 1

\* strings.Fields: the maximal runs of non-space characters
RECURSIVE Fields(_)
Fields(s) ==
    LET b == FirstNotIn(s, 1, WhiteSpace)
        e == FirstIn(s, b, WhiteSpace)
    IN IF b > Len(s) THEN <<>>
       ELSE <<SubSeq(s, b, e - 1)>> \o Fields(SubSeq(s, e, Len(s)))

\* regexp.MustCompile(`[...]`).Split(s, -1) for a character class
RECURSIVE SplitOn(_, _)
SplitOn(s, seps) ==
    LET i == FirstIn(s, 1, seps)
    IN IF i > Len(s) THEN <<s>>
       ELSE <<SubSeq(s, 1, i - 1)>> \o SplitOn(SubSeq(s, i + 1, Len(s)), seps)

\* regexp.MustCompile(`[...]`).ReplaceAllString(s, "") for a character class
RemoveChars(s, set) == SelectSeq(s, LAMBDA c : c \notin set)

\* strings.FieldsFunc(s, f) where f holds of the characters of seps
RECURSIVE FieldsFunc(_, _)
FieldsFunc(s, seps) ==
    LET b == FirstNotIn(s, 1, seps)
        e == FirstIn(s, b, seps)
    IN IF b > Len(s) THEN <<>>
       ELSE <<SubSeq(s, b, e - 1)>> \o FieldsFunc(SubSeq(s, e, Len(s)), seps)

\* unicode.ToUpper on one character
ToUpperChar(c) ==
    IF \E i \in 1..Len(LowerLetters) : LowerLetters[i] = c
    THEN UpperLetters[CHOOSE i \in 1..Len(LowerLetters) : LowerLetters[i] = c]
    ELSE c

\* strings.ToUpper
ToUpper(s) == [i \in 1..Len(s) |-> ToUpperChar(s[i])]

\* strings.Title: the first letter of every word is upper-cased, a word
\* starting after any character that is no letter, digit or underscore
Title(s) == [i \in 1..Len(s) |->
               IF i = 1 \/ s[i-1] \notin WordChars THEN ToUpperChar(s[i]) ELSE s[i]]

\* the concatenation of a sequence of strings
RECURSIVE Concat(_)
Concat(ss) == IF ss = <<>> THEN <<>> ELSE Head(ss) \o Concat(Tail(ss))

\* ---------------------------------------------------------------------
\* DTDParser (src/README.md, the Go file from line 132 on)
\* ---------------------------------------------------------------------
\* A parser P is the record of the four fields of DTDParser:
\*   elements     name -> [Name, Content, Attributes]
\*   attributes   element name -> sequence of [Name, Type, DefaultValue, Required]
\*   elementOrder sequence of names
\*   entities     name -> value
\* A Go map is a function whose DOMAIN is the key set.

\* m[k] = v on a Go map
MapPut(m, k, v) == [x \in DOMAIN m \cup {k} |-> IF x = k THEN v ELSE m[x]]

\* make(map...)
EmptyMap == [x \in {} |-> <<>>]

\* NewDTDParser
NewDTDParser == [elements |-> EmptyMap, attributes |-> EmptyMap,
                 elementOrder |-> <<>>, entities |-> EmptyMap]

\* the leftmost-first match of `<!ENTITY\s+%\s+(\w+)\s+"(.+?)">` that starts at i:
\* <<name, value>>, or <<>> when the pattern does not match there
EntityMatchAt(line, i) ==
    LET w1 == i + Len(KwEntity)
        pc == FirstNotIn(line, w1, WhiteSpace)
        w2 == pc + 1
        n1 == FirstNotIn(line, w2, WhiteSpace)
        n2 == FirstNotIn(line, n1, WordChars)
        q == FirstNotIn(line, n2, WhiteSpace)
        v == q + 1
        e == IndexFrom(line, v + 1, <<"\"", ">">>)
    IN IF /\ MatchAt(line, i, KwEntity)
          /\ pc > w1 /\ pc <= Len(line) /\ line[pc] = "%"
          /\ n1 > w2 /\ n2 > n1
          /\ q > n2 /\ q <= Len(line) /\ line[q] = "\""
          /\ e <= Len(line)
       THEN <<SubSeq(line, n1, n2 - 1), SubSeq(line, v, e - 1)>>
       ELSE <<>>

\* re.FindStringSubmatch(line) of parseEntity
EntityMatch(line) ==
    IF \E i \in 1..Len(line) : EntityMatchAt(line, i) # <<>>
    THEN EntityMatchAt(line, CHOOSE i \in 1..Len(line) :
             /\ EntityMatchAt(line, i) # <<>>
             /\ \A j \in 1..(i-1) : EntityMatchAt(line, j) = <<>>)
    ELSE <<>>

\* parseEntity
parseEntity(P, line) ==
    LET m == EntityMatch(line)
    IN IF m # <<>> THEN [P EXCEPT !.entities = MapPut(P.entities, m[1], m[2])] ELSE P

\* the leftmost-first match of `<!ELEMENT\s+([\w-]+)\s+(.+?)>` that starts at i:
\* <<name, content>>, or <<>> when the pattern does not match there.  (.+?) is
\* lazy and takes at least one character; when no > follows the first character
\* after the white space, the greedy \s+ gives one character back.
ElementMatchAt(line, i) ==
    LET w1 == i + Len(KwElement)
        n1 == FirstNotIn(line, w1, WhiteSpace)
        n2 == FirstNotIn(line, n1, NameChars)
        c == FirstNotIn(line, n2, WhiteSpace)
        e == FirstIn(line, c + 1, {">"})
    IN IF /\ MatchAt(line, i, KwElement)
          /\ n1 > w1 /\ n2 > n1 /\ c > n2
       THEN IF e <= Len(line) THEN <<SubSeq(line, n1, n2 - 1), SubSeq(line, c, e - 1)>>
            ELSE IF c <= Len(line) /\ line[c] = ">" /\ c - n2 >= 2
                 THEN <<SubSeq(line, n1, n2 - 1), SubSeq(line, c - 1, c - 1)>>
                 ELSE <<>>
       ELSE <<>>

\* re.FindStringSubmatch(line) of parseElement
ElementMatch(line) ==
    IF \E i \in 1..Len(line) : ElementMatchAt(line, i) # <<>>
    THEN ElementMatchAt(line, CHOOSE i \in 1..Len(line) :
             /\ ElementMatchAt(line, i) # <<>>
             /\ \A j \in 1..(i-1) : ElementMatchAt(line, j) = <<>>)
    ELSE <<>>

\* &DTDElement{Name: name, Content: content}
NewElement(name, content) == [Name |-> name, Content |-> content, Attributes |-> <<>>]

\* AppendOrder without the "first time we see this element" test
AppendOrderAlways(P, name) == Append(P.elementOrder, name)

\* the element order after a declaration of name
AppendOrder(P, name) ==
    IF name \notin DOMAIN P.elements THEN Append(P.elementOrder, name) ELSE P.elementOrder

\* parseElement
parseElement(P, line) ==
    LET m == ElementMatch(line)
    IN IF m # <<>>
       THEN [P EXCEPT !.elementOrder = AppendOrder(P, m[1]),
                      !.elements = MapPut(P.elements, m[1], NewElement(m[1], TrimSpace(m[2])))]
       ELSE P

\* the three copies of "Check if required or has default value"
WithDefault(name, type, defaultInfo) ==
    [Name |-> name, Type |-> type,
     Required |-> (defaultInfo = Required),
     DefaultValue |-> IF defaultInfo # Required /\ defaultInfo # Implied
                      THEN Trim(defaultInfo, {"\""}) ELSE <<>>]

\* parseEntityValue: the attributes after the entity value has been read
parseEntityValue(entityValue, attributes) ==
    LET parts == Fields(entityValue)
        hit == {i \in 1..Len(parts) : Contains(parts[i], <<")">>)}
        \* typeEnd + 1 as a 1-based index: 0 stands for the source's -1
        typeEnd == IF hit = {} THEN 0 ELSE CHOOSE i \in hit : \A j \in hit : i <= j
        defaultInfo == IF typeEnd + 1 <= Len(parts) THEN parts[typeEnd + 1] ELSE <<>>
    IN IF Len(parts) < 3 THEN attributes
       ELSE Append(attributes, WithDefault(parts[1], GoString, defaultInfo))

\* the number of ( minus the number of ) in the tokens parts[from..to]
RECURSIVE ParenCount(_, _, _)
ParenCount(parts, from, to) ==
    IF from > to THEN 0
    ELSE ParenCount(parts, from, to - 1)
         + Len(SelectSeq(parts[to], LAMBDA ch : ch = "("))
         - Len(SelectSeq(parts[to], LAMBDA ch : ch = ")"))

\* the index j at which the scan for the end of a parenthesised type stops
\* (Len(parts)+1 when it runs off the end)
ParenEnd(parts, from) ==
    LET ok(j) == ParenCount(parts, from, j) = 0 /\ Contains(parts[j], <<")">>)
    IN IF \E j \in from..Len(parts) : ok(j)
       THEN CHOOSE j \in from..Len(parts) : ok(j) /\ \A k \in from..(j-1) : ~ok(k)
       ELSE Len(parts) + 1

\* the loop of parseAttributeList over parts, from index i (1-based)
RECURSIVE AttrLoop(_, _, _, _)
AttrLoop(parts, i, attributes, entities) ==
    IF i > Len(parts) THEN attributes
    ELSE IF HasPrefix(parts[i], <<"%">>) /\ HasSuffix(parts[i], <<";">>)
    THEN LET entityName == TrimSuffix(TrimPrefix(parts[i], <<"%">>), <<";">>)
         IN AttrLoop(parts, i + 1,
                     IF entityName \in DOMAIN entities
                     THEN parseEntityValue(entities[entityName], attributes)
                     ELSE attributes,
                     entities)
    ELSE IF i + 2 <= Len(parts)
    THEN IF Contains(parts[i + 1], <<"(">>)
         THEN LET j == ParenEnd(parts, i + 1)
              IN AttrLoop(parts, j + 2,
                          IF j + 1 <= Len(parts)
                          THEN Append(attributes, WithDefault(parts[i], GoString, parts[j + 1]))
                          ELSE attributes,
                          entities)
         ELSE AttrLoop(parts, i + 3,
                       Append(attributes, WithDefault(parts[i], parts[i + 1], parts[i + 2])),
                       entities)
    ELSE AttrLoop(parts, i + 1, attributes, entities)

\* StoreAttributes overwriting what an earlier ATTLIST stored
StoreAttributesOverwrite(attrMap, elementName, attributes) ==
    MapPut(attrMap, elementName, attributes)

\* "Append to existing attributes instead of overwriting"
StoreAttributes(attrMap, elementName, attributes) ==
    IF elementName \in DOMAIN attrMap
    THEN MapPut(attrMap, elementName, attrMap[elementName] \o attributes)
    ELSE MapPut(attrMap, elementName, attributes)

\* parseAttributeList
parseAttributeList(P, line) ==
    LET content == TrimSpace(TrimSuffix(TrimPrefix(line, KwAttlist), <<">">>))
        parts == Fields(content)
    IN IF Len(parts) < 1 THEN P
       ELSE [P EXCEPT !.attributes =
                StoreAttributes(P.attributes, parts[1],
                                AttrLoop(Tail(parts), 1, <<>>, P.entities))]

\* parseLine
parseLine(P, raw) ==
    LET line == TrimSpace(raw)
    IN IF HasPrefix(line, KwEntity) THEN parseEntity(P, line)
       ELSE IF HasPrefix(line, KwElement) THEN parseElement(P, line)
       ELSE IF HasPrefix(line, KwAttlist) THEN parseAttributeList(P, line)
       ELSE P

\* "Check if we have a complete declaration"
IsComplete(line, buffer) ==
    /\ HasSuffix(line, <<">">>)
    /\ \/ Contains(buffer, KwElement)
       \/ Contains(buffer, KwAttlist)
       \/ Contains(buffer, KwEntity)

\* "Skip comments and empty lines"
IsSkipped(line) == line = <<>> \/ HasPrefix(line, CommentOpen)

\* ---------------------------------------------------------------------
\* StructGenerator (src/struct_generator.go)
\* ---------------------------------------------------------------------
\* A field of an emitted struct is [name, type, tag]: the line
\*     name type `xml:"tag"`
\* and a definition is [name, element, fields]: the struct name, the element
\* it represents and its fields in the order they are written.
Field(name, type, tag) == [name |-> name, type |-> type, tag |-> tag]

\* toGoStructName
toGoStructName(name) ==
    LET words == FieldsFunc(name, {"-", "_"})
        structName == Concat([i \in 1..Len(words) |-> Title(words[i])])
    IN IF structName = <<>> THEN DefaultStructName ELSE structName

\* runes[0] = unicode.ToUpper(runes[0])
UpperFirst(word) == [i \in 1..Len(word) |-> IF i = 1 THEN ToUpperChar(word[i]) ELSE word[i]]

\* toGoFieldName
toGoFieldName(name) ==
    LET words == FieldsFunc(name, {"-", "_"})
        fieldName == Concat([i \in 1..Len(words) |-> UpperFirst(words[i])])
    IN IF fieldName = <<>> THEN DefaultFieldName ELSE fieldName

\* getGoType
getGoType(dtdType) ==
    IF ToUpper(dtdType) \in {Idrefs, Nmtokens} THEN GoStringSlice ELSE GoString

\* getXMLTag
getXMLTag(name, required, isAttribute) ==
    (IF isAttribute THEN name \o AttrTag ELSE name) \o (IF ~required THEN OmitEmpty ELSE <<>>)

\* canContainText
canContainText(content) == Contains(content, Pcdata)

\* isSimpleElement comparing with the three literals only
isSimpleElementExact(elements, elementName) ==
    IF elementName \notin DOMAIN elements THEN TRUE
    ELSE LET content == TrimSpace(elements[elementName].Content)
         IN content = PcdataSpaced \/ content = Pcdata \/ content = KwEmpty

\* isSimpleElement
isSimpleElement(elements, elementName) ==
    IF elementName \notin DOMAIN elements THEN TRUE
    ELSE LET content == TrimSpace(elements[elementName].Content)
         IN \/ content = PcdataSpaced \/ content = Pcdata \/ content = KwEmpty
            \/ /\ Len(elements[elementName].Attributes) = 0
               /\ (content = PcdataSpaced \/ Contains(content, Pcdata))

\* "Detect group-level repetition like (a | b | c)* or (a, b)+"
GroupRepeating(content) ==
    HasSuffix(TrimSpace(content), <<")", "*">>) \/ HasSuffix(TrimSpace(content), <<")", "+">>)

\* "Clean up the content model"
CleanContent(content) ==
    LET stripped == IF GroupRepeating(content)
                       /\ (HasSuffix(content, <<")", "*">>) \/ HasSuffix(content, <<")", "+">>))
                    THEN SubSeq(content, 1, Len(content) - 2)
                    ELSE content
    IN TrimSpace(Trim(stripped, {"(", ")"}))

\* the names one part of the split content model contributes
PartNames(rawPart) ==
    LET part == TrimSpace(Trim(RemoveChars(TrimSpace(rawPart), {"+", "*", "?"}), {"(", ")"}))
        subParts == Fields(part)
        clean(sp) == TrimSpace(RemoveChars(sp, {"+", "*", "?", "(", ")", ","}))
    IN IF part # <<>> /\ ~Contains(part, Pcdata) /\ ~Contains(part, <<"%">>)
       THEN SelectSeq([i \in 1..Len(subParts) |-> clean(subParts[i])],
                      LAMBDA sp : sp # <<>> /\ ~Contains(sp, Pcdata))
       ELSE <<>>

\* elementNames of parseContentModel
ElementNames(content) ==
    LET parts == SplitOn(CleanContent(content), {",", "|"})
    IN Concat([i \in 1..Len(parts) |-> PartNames(parts[i])])

\* "Remove duplicates": the names in the order they are first seen
RECURSIVE Unique(_)
Unique(names) ==
    IF names = <<>> THEN <<>>
    ELSE LET init == Unique(SubSeq(names, 1, Len(names) - 1))
             last == names[Len(names)]
         IN IF last \in Range(init) THEN init ELSE Append(init, last)

\* isSlice of parseContentModel
IsSlice(content, name) ==
    \/ GroupRepeating(content)
    \/ Contains(TrimSpace(content), name \o <<"*">>)
    \/ Contains(TrimSpace(content), name \o <<"+">>)
    \/ Contains(TrimSpace(content), <<"|">>)

\* ChildField without the isSimpleElement test: every child typed by its struct name
ChildFieldAlwaysStruct(elements, content, name) ==
    Field(toGoFieldName(name),
          (IF IsSlice(content, name) THEN <<"[", "]">> ELSE <<"*">>) \o toGoStructName(name),
          name \o OmitEmpty)

\* the field parseContentModel writes for a child name
ChildField(elements, content, name) ==
    LET base == IF isSimpleElement(elements, name) THEN GoString ELSE toGoStructName(name)
        type == IF IsSlice(content, name) THEN <<"[", "]">> \o base ELSE <<"*">> \o base
    IN Field(toGoFieldName(name), type, name \o OmitEmpty)

\* parseContentModel
parseContentModel(elements, content) ==
    IF content = KwEmpty THEN <<>>
    ELSE IF content = KwAny THEN <<Field(ContentName, GoString, InnerXml)>>
    ELSE IF Contains(content, Pcdata) THEN <<>>
    ELSE IF Contains(content, <<"%">>) THEN <<>>
    ELSE LET names == Unique(ElementNames(content))
         IN [i \in 1..Len(names) |-> ChildField(elements, content, names[i])]

\* the field generateStruct writes for an attribute
AttributeField(attr) ==
    Field(toGoFieldName(attr.Name), getGoType(attr.Type), getXMLTag(attr.Name, attr.Required, TRUE))

\* generateStruct
generateStruct(elements, element) ==
    [name |-> toGoStructName(element.Name),
     element |-> element.Name,
     fields |-> <<Field(XMLName, XmlNameType, element.Name)>>
                \o [i \in 1..Len(element.Attributes) |-> AttributeField(element.Attributes[i])]
                \o parseContentModel(elements, element.Content)
                \o (IF canContainText(element.Content)
                    THEN <<Field(TextName, GoString, CharData)>> ELSE <<>>)]

\* the elements GenerateStructs writes a definition for, in the order written
Emitted(elements, elementOrder) ==
    SelectSeq(elementOrder, LAMBDA n : n \in DOMAIN elements /\ ~isSimpleElement(elements, n))

\* GenerateStructs: the package clause and the definitions, in order
GenerateStructs(packageName, elements, elementOrder) ==
    [package |-> packageName,
     structs |-> [i \in 1..Len(Emitted(elements, elementOrder)) |->
                    generateStruct(elements, elements[Emitted(elements, elementOrder)[i]])]]

\* ---------------------------------------------------------------------
\* The input: DTD files written from a list of declarations
\* ---------------------------------------------------------------------
\* A declaration d of a file is a record
\*   kind    "element", "attlist", "entity" or "comment"
\*   el      the element (or entity) it names
\*   content the content model (or the entity value)
\*   attrs   the attribute definitions [name, type, spec] of an ATTLIST (of
\*           an entity: the one definition its value spells)
\*   group   the group an element's content model was written from, if any
\*   text    the physical lines it is written on
SP == <<" ">>
GT == <<">">>

NameA == <<"a">>
NameBA == <<"b", "a">>
NameBC == <<"b", "-", "c">>
NameX == <<"x">>
NameY == <<"y">>
NameR == <<"r">>
NameE == <<"e">>
NameId == <<"i", "d">>
NameK == <<"k">>
NameN == <<"n">>
NameStatus == <<"s", "t", "a", "t", "u", "s">>
TypeCdata == <<"C", "D", "A", "T", "A">>
TypeEnum == <<"(", "a", "|", "b", ")">>
TypeEnumSpaced == <<"(", " ", "a", " ", "|", " ", "b", " ", ")">>
PcdataParen == <<"(", "#", "P", "C", "D", "A", "T", "A", ")">>
MixedContent == <<"(", "#", "P", "C", "D", "A", "T", "A", " ", "|", " ", "b", ")", "*">>
ValueV == <<"v">>

\* s between double quotes / between single quotes
DQuoted(s) == <<"\"">> \o s \o <<"\"">>
SQuoted(s) == <<"'">> \o s \o <<"'">>

NoGroup == [children |-> <<>>, sep |-> <<>>, rep |-> <<>>]

ElementDecl(name, content) ==
    [kind |-> "element", el |-> name, content |-> content, attrs |-> <<>>, group |-> NoGroup,
     text |-> <<KwElement \o SP \o name \o SP \o content \o GT>>]

\* the same declaration, split over two physical lines
SplitElementDecl(name, content) ==
    [kind |-> "element", el |-> name, content |-> content, attrs |-> <<>>, group |-> NoGroup,
     text |-> <<KwElement \o SP \o name, SP \o SP \o content \o GT>>]

AttrDef(name, type, spec) == [name |-> name, type |-> type, spec |-> spec]

AttrText(def) == SP \o def.name \o SP \o def.type \o SP \o def.spec

AttlistDecl(el, defs) ==
    [kind |-> "attlist", el |-> el, content |-> <<>>, attrs |-> defs, group |-> NoGroup,
     text |-> <<KwAttlist \o SP \o el \o Concat([i \in 1..Len(defs) |-> AttrText(defs[i])]) \o GT>>]

\* <!ATTLIST el %entity;>, content being the name of the entity
AttlistRefDecl(el, entity) ==
    [kind |-> "attlistref", el |-> el, content |-> entity, attrs |-> <<>>, group |-> NoGroup,
     text |-> <<KwAttlist \o SP \o el \o SP \o <<"%">> \o entity \o <<";">> \o GT>>]

\* <!ENTITY % name "value">, the value being the three fields of def
EntityDecl(name, def) ==
    [kind |-> "entity", el |-> name, content |-> def.name \o SP \o def.type \o SP \o def.spec,
     attrs |-> <<def>>, group |-> NoGroup,
     text |-> <<KwEntity \o SP \o <<"%">> \o SP \o name \o SP
                \o DQuoted(def.name \o SP \o def.type \o SP \o def.spec) \o GT>>]

CommentDecl(text) ==
    [kind |-> "comment", el |-> <<>>, content |-> <<>>, attrs |-> <<>>, group |-> NoGroup,
     text |-> text]

\* the physical lines of a file
FileLines(doc) == Concat([i \in 1..Len(doc) |-> doc[i].text])

\* the non-empty sequences of at most n members of pool
SeqsUpTo(pool, n) == UNION {[1..k -> pool] : k \in 1..n}

\* Bounds of the input
MaxDecls == 3
MaxStmts == 3
MaxAttrs == 2
MaxChildren == 2
MaxComments == 3

\* files of element declarations only, with re-declarations
ElementPool ==
    {ElementDecl(n, c) : n \in {NameA, NameBC}, c \in {PcdataParen, <<"(">> \o NameX \o <<")">>}}
    \cup {SplitElementDecl(NameA, <<"(">> \o NameBC \o <<",", " ">> \o NameX \o <<")">>)}
ElementDocs == SeqsUpTo(ElementPool, MaxDecls)

\* files of element declarations and attribute lists in any order
DefIdRequired == AttrDef(NameId, TypeCdata, Required)
DefKImplied == AttrDef(NameK, Idrefs, Implied)
DefNDefault == AttrDef(NameN, TypeEnum, DQuoted(ValueV))
StmtPool ==
    {ElementDecl(NameX, KwEmpty), ElementDecl(NameX, <<"(">> \o NameA \o <<")">>),
     ElementDecl(NameY, PcdataParen),
     AttlistDecl(NameX, <<DefIdRequired>>), AttlistDecl(NameX, <<DefKImplied, DefNDefault>>),
     AttlistDecl(NameY, <<DefNDefault>>)}
StmtDocs == SeqsUpTo(StmtPool, MaxStmts)

\* files of one element and one attribute list of up to MaxAttrs definitions
AttrNames == <<NameId, NameK, NameN>>
AttrTypes == {TypeCdata, TypeEnum, TypeEnumSpaced}
AttrSpecs == {Required, Implied, DQuoted(ValueV), SQuoted(ValueV)}
AttrDefSeqs ==
    UNION {{[i \in 1..k |-> AttrDef(AttrNames[i], t[i], d[i])] :
               t \in [1..k -> AttrTypes], d \in [1..k -> AttrSpecs]} : k \in 1..MaxAttrs}
AttrDocs == {<<ElementDecl(NameX, KwEmpty), AttlistDecl(NameX, defs)>> : defs \in AttrDefSeqs}

\* files of one element, one parameter entity and one reference to it
EntityDefs ==
    {AttrDef(NameStatus, t, d) : t \in {TypeCdata, TypeEnum, TypeEnumSpaced},
                                 d \in {Required, Implied, DQuoted(ValueV)}}
EntityDocs ==
    UNION {{<<ElementDecl(NameX, KwAny), EntityDecl(NameE, def), AttlistRefDecl(NameX, NameE)>>,
            <<EntityDecl(NameE, def), AttlistRefDecl(NameX, NameE), ElementDecl(NameX, KwAny)>>,
            <<ElementDecl(NameX, KwAny), AttlistRefDecl(NameX, NameE), EntityDecl(NameE, def)>>}
           : def \in EntityDefs}
    \cup {<<ElementDecl(NameX, KwAny), AttlistRefDecl(NameX, NameE)>>}

\* files of one element whose content model is a group of children
\* A group is [children, sep, rep]: the children [name, ind], the operator
\* between them and the indicator after the closing parenthesis.
ChildNames == {NameA, NameBA}
Indicators == {<<>>, <<"?">>, <<"*">>, <<"+">>}
Children == [name : ChildNames, ind : Indicators]
Groups ==
    UNION {[children : [1..k -> Children],
            sep : IF k = 1 THEN {<<",">>} ELSE {<<",">>, <<"|">>},
            rep : {<<>>, <<"*">>}]
           : k \in 1..MaxChildren}

\* the operator as it is written between two children: "a, b" and "a | b"
SepText(sep) == IF sep = <<",">> THEN <<",", " ">> ELSE SP \o sep \o SP

RECURSIVE JoinChildren(_, _)
JoinChildren(children, sep) ==
    IF Len(children) = 1 THEN children[1].name \o children[1].ind
    ELSE JoinChildren(SubSeq(children, 1, Len(children) - 1), sep)
         \o SepText(sep) \o children[Len(children)].name \o children[Len(children)].ind

GroupText(g) == <<"(">> \o JoinChildren(g.children, g.sep) \o <<")">> \o g.rep

GroupDecl(name, g) == [ElementDecl(name, GroupText(g)) EXCEPT !.group = g]
GroupDocs == {<<GroupDecl(NameR, g)>> : g \in Groups}

\* files of one element of every shape of content model, with and without
\* an attribute list
Shapes == {KwEmpty, KwAny, Pcdata, PcdataParen, PcdataSpaced, MixedContent,
           <<"(">> \o NameA \o <<")">>}
ShapeDocs ==
    {<<ElementDecl(NameX, c)>> : c \in Shapes}
    \cup {<<ElementDecl(NameX, c), AttlistDecl(NameX, <<DefIdRequired>>)>> : c \in Shapes}

\* files of blank lines and comments only
CommentPool ==
    {CommentDecl(<<<<>>>>),
     CommentDecl(<<CommentOpen \o SP \o NameA \o SP \o <<"-", "-", ">">> >>),
     CommentDecl(<<CommentOpen, SP \o NameA \o SP \o NameX, <<"-", "-", ">">> >>),
     CommentDecl(<<CommentOpen, ElementDecl(NameA, PcdataParen).text[1], <<"-", "-", ">">> >>)}
CommentDocs == {<<>>} \cup SeqsUpTo(CommentPool, MaxComments)

\* files of a parent element and declarations of its children: each child
\* undeclared, text only, structured, or with an attribute list; the parent
\* declared before or after its children
Child(name, ind) == [name |-> name, ind |-> ind]
FamilyGroups ==
    {[children |-> <<Child(NameA, <<>>), Child(NameBA, <<>>)>>, sep |-> <<",">>, rep |-> <<>>],
     [children |-> <<Child(NameBA, <<"*">>), Child(NameA, <<"?">>), Child(NameBA, <<>>)>>,
      sep |-> <<",">>, rep |-> <<>>],
     [children |-> <<Child(NameA, <<>>), Child(NameBA, <<>>)>>, sep |-> <<"|">>, rep |-> <<>>],
     [children |-> <<Child(NameA, <<"+">>)>>, sep |-> <<",">>, rep |-> <<>>]}
ChildADecls ==
    {<<>>,
     <<ElementDecl(NameA, PcdataParen)>>,
     <<ElementDecl(NameA, <<"(">> \o NameX \o <<")">>)>>,
     <<ElementDecl(NameA, PcdataParen), AttlistDecl(NameA, <<DefIdRequired>>)>>,
     <<ElementDecl(NameA, KwEmpty), AttlistDecl(NameA, <<DefIdRequired>>)>>}
ChildBADecls == {<<>>, <<ElementDecl(NameBA, <<"(">> \o NameX \o <<")">>)>>}
FamilyDocs ==
    UNION {{<<GroupDecl(NameR, g)>> \o a \o b, a \o b \o <<GroupDecl(NameR, g)>>}
           : g \in FamilyGroups, a \in ChildADecls, b \in ChildBADecls}

\* files of lines that are no well-formed declaration (stray text, a comment
\* over three lines, a line ending in > without a keyword, an element
\* declaration without content, a comment on one line), followed by one
\* well-formed element declaration on one line or on two
MaxStray == 2
StrayPool ==
    {CommentDecl(<<NameA \o SP \o NameX>>),
     CommentDecl(<<CommentOpen, SP \o NameA \o SP \o NameX, <<"-", "-", ">">> >>),
     CommentDecl(<<<<"<">> \o NameX \o GT>>),
     CommentDecl(<<KwElement \o SP \o NameA \o GT>>),
     CommentDecl(<<CommentOpen \o SP \o NameA \o SP \o <<"-", "-", ">">> >>)}
StrayTargets == {ElementDecl(NameE, PcdataParen), SplitElementDecl(NameE, PcdataParen)}
StrayDocs == {pre \o <<t>> : pre \in SeqsUpTo(StrayPool, MaxStray), t \in StrayTargets}

\* files of one element whose children and attributes have names that are
\* close: b-c and b_c, an attribute named as a child, an attribute named text
NameB_C == <<"b", "_", "c">>
NameText == <<"t", "e", "x", "t">>
SeqGroup(names) ==
    [children |-> [i \in 1..Len(names) |-> Child(names[i], <<>>)], sep |-> <<",">>, rep |-> <<>>]
ImpliedAttrs(names) == [i \in 1..Len(names) |-> AttrDef(names[i], TypeCdata, Implied)]
CloseNameDocs ==
    {<<GroupDecl(NameR, SeqGroup(<<NameBC, NameB_C>>))>>,
     <<GroupDecl(NameR, SeqGroup(<<NameA>>)), AttlistDecl(NameR, ImpliedAttrs(<<NameA>>))>>,
     <<ElementDecl(NameR, PcdataParen), AttlistDecl(NameR, ImpliedAttrs(<<NameText>>))>>,
     <<GroupDecl(NameR, SeqGroup(<<NameX>>)), AttlistDecl(NameR, ImpliedAttrs(<<NameBC, NameB_C>>))>>,
     <<GroupDecl(NameR, SeqGroup(<<NameA, NameBC>>)), AttlistDecl(NameR, ImpliedAttrs(<<NameId>>))>>}

Docs == ElementDocs \cup StmtDocs \cup AttrDocs \cup EntityDocs \cup GroupDocs
        \cup ShapeDocs \cup CommentDocs \cup FamilyDocs \cup StrayDocs \cup CloseNameDocs

\* ---------------------------------------------------------------------
\* The program: main calls ParseFile and then GenerateStructs
\* ---------------------------------------------------------------------
VARIABLES
    doc,           \* the declarations the input file was written from
    lines,         \* the input file, line by line
    pos,           \* the number of lines the scanner has returned
    currentLine,   \* ParseFile's currentLine
    elements,      \* DTDParser.elements
    attributes,    \* DTDParser.attributes
    elementOrder,  \* DTDParser.elementOrder
    entities,      \* DTDParser.entities
    pending,       \* the keys the range loop of ParseFile has not visited yet
    pc,            \* "scan", "assoc", "main", "done"
    result,        \* the ParseResult main holds
    generated,     \* main has called GenerateStructs
    output,        \* structCode
    run,           \* "first" or "second": which run of the program this is
    first          \* what the first run ended with

vars == <<doc, lines, pos, currentLine, elements, attributes, elementOrder, entities,
          pending, pc, result, generated, output, run, first>>

Parser == [elements |-> elements, attributes |-> attributes,
           elementOrder |-> elementOrder, entities |-> entities]

NoResult == [Elements |-> EmptyMap, Order |-> <<>>]
NoOutput == [package |-> <<>>, structs |-> <<>>]
NoRun == [result |-> NoResult, generated |-> FALSE, output |-> NoOutput]

\* the state of a run that is about to open the file
Start ==
    /\ pos = 0
    /\ currentLine = <<>>
    /\ elements = NewDTDParser.elements
    /\ attributes = NewDTDParser.attributes
    /\ elementOrder = NewDTDParser.elementOrder
    /\ entities = NewDTDParser.entities
    /\ pending = {}
    /\ pc = "scan"
    /\ result = NoResult
    /\ generated = FALSE
    /\ output = NoOutput

InitOn(docs) ==
    /\ doc \in docs
    /\ lines = FileLines(doc)
    /\ run = "first"
    /\ first = NoRun
    /\ Start

Init == InitOn(Docs)

\* the parser after one iteration of the scanner loop of ParseFile on raw
ScanStep(P, buffer, raw) ==
    LET line == TrimSpace(raw)
        grown == buffer \o line \o SP
    IN IF IsSkipped(line) THEN [P |-> P, buffer |-> buffer]
       ELSE IF IsComplete(line, grown) THEN [P |-> parseLine(P, TrimSpace(grown)), buffer |-> <<>>]
       ELSE [P |-> P, buffer |-> grown]

\* one iteration of `for scanner.Scan()`
ScanLine ==
    /\ pc = "scan"
    /\ pos < Len(lines)
    /\ LET after == ScanStep(Parser, currentLine, lines[pos + 1])
       IN /\ currentLine' = after.buffer
          /\ elements' = after.P.elements
          /\ attributes' = after.P.attributes
          /\ elementOrder' = after.P.elementOrder
          /\ entities' = after.P.entities
    /\ pos' = pos + 1
    /\ UNCHANGED <<doc, lines, pending, pc, result, generated, output, run, first>>

\* scanner.Scan() returns false: the range loop over p.attributes starts
EndScan ==
    /\ pc = "scan"
    /\ pos = Len(lines)
    /\ pending' = DOMAIN attributes
    /\ pc' = "assoc"
    /\ UNCHANGED <<doc, lines, pos, currentLine, elements, attributes, elementOrder,
                   entities, result, generated, output, run, first>>

\* the range loop assigning attrs to every element instead of the one named
AssociateAll(els, attrs, elementName) ==
    [n \in DOMAIN els |-> [els[n] EXCEPT !.Attributes = attrs[elementName]]]

\* the body of the range loop for the key elementName
AssociateOne(els, attrs, elementName) ==
    IF elementName \in DOMAIN els
    THEN [els EXCEPT ![elementName].Attributes = attrs[elementName]]
    ELSE els

\* one iteration of `for elementName, attrs := range p.attributes`: Go visits
\* the keys of a map in an order it does not specify
Associate ==
    /\ pc = "assoc"
    /\ \E elementName \in pending :
         /\ elements' = AssociateOne(elements, attributes, elementName)
         /\ pending' = pending \ {elementName}
    /\ UNCHANGED <<doc, lines, pos, currentLine, attributes, elementOrder, entities,
                   pc, result, generated, output, run, first>>

\* ParseFile returns &ParseResult{Elements: p.elements, Order: p.elementOrder}
Return ==
    /\ pc = "assoc"
    /\ pending = {}
    /\ result' = [Elements |-> elements, Order |-> elementOrder]
    /\ pc' = "main"
    /\ UNCHANGED <<doc, lines, pos, currentLine, elements, attributes, elementOrder,
                   entities, pending, generated, output, run, first>>

\* main after ParseFile: the early return on no elements, or GenerateStructs
Main ==
    /\ pc = "main"
    /\ IF Cardinality(DOMAIN result.Elements) = 0
       THEN UNCHANGED <<generated, output>>
       ELSE /\ generated' = TRUE
            /\ output' = GenerateStructs(DefaultPackage, result.Elements, result.Order)
    /\ pc' = "done"
    /\ UNCHANGED <<doc, lines, pos, currentLine, elements, attributes, elementOrder,
                   entities, pending, result, run, first>>

Next == ScanLine \/ EndScan \/ Associate \/ Return \/ Main

Spec == Init /\ [][Next]_vars

\* the program is run a second time on the same file
Rerun ==
    /\ pc = "done"
    /\ run = "first"
    /\ run' = "second"
    /\ first' = [result |-> result, generated |-> generated, output |-> output]
    /\ pos' = 0
    /\ currentLine' = <<>>
    /\ elements' = NewDTDParser.elements
    /\ attributes' = NewDTDParser.attributes
    /\ elementOrder' = NewDTDParser.elementOrder
    /\ entities' = NewDTDParser.entities
    /\ pending' = {}
    /\ pc' = "scan"
    /\ result' = NoResult
    /\ generated' = FALSE
    /\ output' = NoOutput
    /\ UNCHANGED <<doc, lines>>

NextTwice == Next \/ Rerun

InitTwice == InitOn(Docs)

SpecTwice == InitTwice /\ [][NextTwice]_vars

\* ---------------------------------------------------------------------
\* The claims
\* ---------------------------------------------------------------------
\* ParseFile has returned
Parsed == pc \in {"main", "done"}

\* main has returned
Done == pc = "done"

\* the kinds of declaration the file is written from
Kinds == {doc[i].kind : i \in 1..Len(doc)}

\* the indices of the declarations of element n
DeclsOf(n) == {i \in 1..Len(doc) : doc[i].kind = "element" /\ doc[i].el = n}
Declared == {doc[i].el : i \in {j \in 1..Len(doc) : doc[j].kind = "element"}}
FirstDecl(n) == CHOOSE i \in DeclsOf(n) : \A j \in DeclsOf(n) : i <= j
LastDecl(n) == CHOOSE i \in DeclsOf(n) : \A j \in DeclsOf(n) : j <= i

\* the definitions written for element n
StructsOf(n) == {i \in 1..Len(output.structs) : output.structs[i].element = n}

\* a default-spec token without the quotes around it
Unquoted(spec) == Trim(spec, {"\"", "'"})

\* the attribute an attribute definition declares
Declares(def) ==
    [Name |-> def.name,
     Type |-> IF HasPrefix(def.type, <<"(">>) THEN GoString ELSE def.type,
     Required |-> (def.spec = Required),
     DefaultValue |-> IF def.spec \in {Required, Implied} THEN <<>> ELSE Unquoted(def.spec)]

\* C1: after a file of well-formed declarations, Elements has exactly one entry
\* per declared element name, Order lists each declared name once, in the order
\* of the first declarations, and the content of an entry is the content of the
\* last declaration of its name; at every moment the parser's order is
\* duplicate-free and names exactly the keys of its element map.
C1_OneEntryFirstOrder ==
    /\ Cardinality(Range(elementOrder)) = Len(elementOrder)
    /\ Range(elementOrder) = DOMAIN elements
    /\ (Parsed /\ "comment" \notin Kinds) =>
         /\ DOMAIN result.Elements = Declared
         /\ Range(result.Order) = Declared
         /\ Len(result.Order) = Cardinality(Declared)
         /\ \A p, q \in 1..Len(result.Order) :
               p < q => FirstDecl(result.Order[p]) < FirstDecl(result.Order[q])
         /\ \A n \in Declared :
               /\ result.Elements[n].Name = n
               /\ result.Elements[n].Content = doc[LastDecl(n)].content

\* C1's case: a name declared first and third with different content, another
\* name in between, and the order is still first name, second name
C1_Witness ==
    /\ Parsed /\ Kinds = {"element"} /\ Len(doc) = 3
    /\ doc[1].el = doc[3].el /\ doc[1].el # doc[2].el /\ doc[1].content # doc[3].content
    /\ result.Order = <<doc[1].el, doc[2].el>>
    /\ result.Elements[doc[1].el].Content = doc[3].content

\* the attributes one ATTLIST statement yields when it is parsed on its own
ParsedAlone(d) == parseAttributeList(NewDTDParser, d.text[1]).attributes[d.el]

\* the ATTLIST statements for element x, in document order
AttlistsOf(x) == SelectSeq(doc, LAMBDA d : d.kind = "attlist" /\ d.el = x)

\* C2: for a declared element x, wherever it is declared and re-declared, the
\* final attribute list is the concatenation, in document order, of the
\* attributes of every <!ATTLIST x ...> statement: as many as the statements
\* define, under the names they give, none removed or replaced by a later one.
C2_AttributesAccumulate ==
    (Parsed /\ Kinds \subseteq {"element", "attlist"}) =>
        \A x \in DOMAIN result.Elements :
            /\ result.Elements[x].Attributes =
                  Concat([i \in 1..Len(AttlistsOf(x)) |-> ParsedAlone(AttlistsOf(x)[i])])
            /\ [i \in 1..Len(result.Elements[x].Attributes) |-> result.Elements[x].Attributes[i].Name]
                  = Concat([i \in 1..Len(AttlistsOf(x)) |->
                              [j \in 1..Len(AttlistsOf(x)[i].attrs) |-> AttlistsOf(x)[i].attrs[j].name]])

\* C2's case: an ATTLIST for x before x is declared and another after, all
\* three attributes in the final list
C2_Witness ==
    /\ Parsed /\ Len(doc) = 3
    /\ doc[1].kind = "attlist" /\ doc[2].kind = "element" /\ doc[3].kind = "attlist"
    /\ doc[1].el = doc[2].el /\ doc[3].el = doc[2].el /\ doc[1] # doc[3]
    /\ Len(result.Elements[doc[2].el].Attributes) = 3

\* C3: a declared element whose content model is exactly EMPTY, (#PCDATA) or
\* #PCDATA and which has no attributes is simple for isSimpleElement, and
\* GenerateStructs writes no definition for it.
C3_SimpleNotEmitted ==
    (Done /\ generated) =>
        \A n \in DOMAIN result.Elements :
            (/\ result.Elements[n].Content \in {KwEmpty, PcdataParen, Pcdata}
             /\ result.Elements[n].Attributes = <<>>)
            => (isSimpleElement(result.Elements, n) /\ StructsOf(n) = {})

\* C3's case: a (#PCDATA) element without attributes next to an element that
\* does get a definition
C3_Witness ==
    /\ Done /\ generated /\ output.structs # <<>>
    /\ \E n \in DOMAIN result.Elements :
          /\ result.Elements[n].Content = PcdataParen
          /\ result.Elements[n].Attributes = <<>>
          /\ StructsOf(n) = {}

\* the entity the file declares before it refers to it, if it does
RefIndex == CHOOSE j \in 1..Len(doc) : doc[j].kind = "attlistref"
DeclaredBeforeRef ==
    {i \in 1..(RefIndex - 1) : doc[i].kind = "entity" /\ doc[i].el = doc[RefIndex].content}

\* C4: <!ATTLIST x %e;> with e declared before it as `attrName type defaultSpec`
\* (type one token or a parenthesised enumeration) gives x exactly one
\* attribute, named attrName, required iff defaultSpec is #REQUIRED, with a
\* default value only when defaultSpec is neither #REQUIRED nor #IMPLIED; a
\* reference to an entity not declared at that point gives no attribute.
C4_EntityAttribute ==
    (Parsed /\ "attlistref" \in Kinds /\ doc[RefIndex].el \in DOMAIN result.Elements) =>
        LET attrs == result.Elements[doc[RefIndex].el].Attributes
        IN IF DeclaredBeforeRef = {} THEN attrs = <<>>
           ELSE LET def == doc[CHOOSE i \in DeclaredBeforeRef : TRUE].attrs[1]
                IN /\ Len(attrs) = 1
                   /\ attrs[1].Name = def.name
                   /\ attrs[1].Required = (def.spec = Required)
                   /\ attrs[1].DefaultValue = Declares(def).DefaultValue

\* the children of group g that are written with a * or + of their own
OwnRepeat(g) ==
    {g.children[i].name : i \in {j \in 1..Len(g.children) : g.children[j].ind \in {<<"*">>, <<"+">>}}}

\* C5: in the definition of an element whose content model is a group of
\* children, the field of a child is a slice if and only if the group carries
\* a trailing * or +, or that child itself is followed by * or +, or the group
\* is a choice; otherwise it is a pointer.
C5_Cardinality ==
    (Done /\ Len(doc) = 1 /\ doc[1].group # NoGroup) =>
        /\ Len(output.structs) = 1
        /\ LET g == doc[1].group
               fields == output.structs[1].fields
           IN \A i \in 1..Len(g.children) :
                \E k \in 1..Len(fields) :
                    /\ fields[k].tag = g.children[i].name \o OmitEmpty
                    /\ IF \/ g.rep \in {<<"*">>, <<"+">>}
                          \/ g.children[i].name \in OwnRepeat(g)
                          \/ g.sep = <<"|">>
                       THEN HasPrefix(fields[k].type, <<"[", "]">>)
                       ELSE HasPrefix(fields[k].type, <<"*">>)

\* C6: a second run of the program on the same file ends with the same
\* ParseResult and the same generated code as the first, whatever order the
\* two runs visit the keys of the attribute map in.
C6_Deterministic ==
    (run = "second" /\ Parsed) =>
        /\ result = first.result
        /\ Done => (generated = first.generated /\ output = first.output)

\* C6's case: a second run over a file with attribute lists for two elements,
\* ended with code generated
C6_Witness ==
    /\ run = "second" /\ Done /\ generated /\ output.structs # <<>>
    /\ Cardinality(DOMAIN attributes) >= 2
    /\ \E x \in DOMAIN result.Elements : Len(result.Elements[x].Attributes) >= 1

\* C7: a file of blank lines and comments only, multi-line comments included,
\* parses to no element and an empty order, and main returns without
\* generating anything.
C7_CommentsOnly ==
    (Done /\ Kinds \subseteq {"comment"}) =>
        /\ DOMAIN result.Elements = {}
        /\ result.Order = <<>>
        /\ ~generated
        /\ output = NoOutput

\* the field a definition carries for an attribute
DeclaredField(attr) ==
    [type |-> IF attr.Type \in {Idrefs, Nmtokens} THEN GoStringSlice ELSE GoString,
     tag |-> attr.Name \o AttrTag \o (IF attr.Required THEN <<>> ELSE OmitEmpty)]

\* C8: every declared element with at least one attribute, whatever its
\* content model, is structured and has a definition, which holds one field
\* per attribute, in attribute order, []string for IDREFS/NMTOKENS and string
\* otherwise, tagged omitempty exactly when the attribute is not required.
C8_AttributesMakeStructured ==
    (Done /\ generated) =>
        \A n \in DOMAIN result.Elements :
            LET attrs == result.Elements[n].Attributes
            IN Len(attrs) >= 1 =>
                 /\ ~isSimpleElement(result.Elements, n)
                 /\ \E i \in StructsOf(n) :
                       /\ Len(output.structs[i].fields) >= 1 + Len(attrs)
                       /\ \A j \in 1..Len(attrs) :
                             /\ output.structs[i].fields[1 + j].type = DeclaredField(attrs[j]).type
                             /\ output.structs[i].fields[1 + j].tag = DeclaredField(attrs[j]).tag

\* C9: every declared element whose content model contains #PCDATA without
\* being purely PCDATA, with or without attributes, has a definition, which
\* holds no child fields and ends with the chardata field.
C9_MixedIsStructured ==
    (Done /\ generated) =>
        \A n \in DOMAIN result.Elements :
            (/\ Contains(result.Elements[n].Content, Pcdata)
             /\ result.Elements[n].Content \notin {Pcdata, PcdataParen, PcdataSpaced})
            => \E i \in StructsOf(n) :
                  LET fields == output.structs[i].fields
                  IN /\ Len(fields) = 1 + Len(result.Elements[n].Attributes) + 1
                     /\ fields[Len(fields)] = Field(TextName, GoString, CharData)

\* C10: an ATTLIST of n definitions name + type + one-token default-spec, the
\* type one token or a parenthesised enumeration of any number of tokens, records
\* exactly the n attributes in order under their names, enumerations with type
\* string; #REQUIRED gives required with no default, #IMPLIED neither, any other
\* token that token without its quotes as default; required never comes with a
\* default value.
C10_AttributeDefinitions ==
    (Parsed /\ Len(doc) = 2 /\ doc[1].kind = "element" /\ doc[2].kind = "attlist"
            /\ doc[1].el = doc[2].el) =>
        LET attrs == result.Elements[doc[1].el].Attributes
        IN /\ attrs = [i \in 1..Len(doc[2].attrs) |-> Declares(doc[2].attrs[i])]
           /\ \A i \in 1..Len(attrs) : ~(attrs[i].Required /\ attrs[i].DefaultValue # <<>>)

\* the child names of group g, each once, in the order they first occur
FirstOccurrences(g) ==
    LET firsts == SelectSeq([i \in 1..Len(g.children) |->
                               IF \E j \in 1..(i-1) : g.children[j].name = g.children[i].name
                               THEN <<>> ELSE g.children[i].name],
                            LAMBDA n : n # <<>>)
    IN firsts

\* a field type without its * or [] in front
BaseType(type) ==
    IF HasPrefix(type, <<"[", "]">>) THEN SubSeq(type, 3, Len(type))
    ELSE IF HasPrefix(type, <<"*">>) THEN SubSeq(type, 2, Len(type))
    ELSE type

\* the declarations of the file whose content model is a group and which no
\* later declaration of the same element replaces
GroupDeclsKept == {i \in 1..Len(doc) : doc[i].group # NoGroup /\ LastDecl(doc[i].el) = i}

C12_DroppingIsLocal ==
    (/\ Parsed
     /\ Len(doc) >= 2
     /\ doc[Len(doc)].kind = "element"
     /\ \A i \in 1..(Len(doc) - 1) : doc[i].kind = "comment") =>
        /\ doc[Len(doc)].el \in DOMAIN result.Elements
        /\ result.Elements[doc[Len(doc)].el].Content = doc[Len(doc)].content

\* the attributes recorded for element n have pairwise distinct DTD names
DistinctAttributes(n) ==
    LET attrs == result.Elements[n].Attributes
    IN \A i, j \in 1..Len(attrs) : i # j => attrs[i].Name # attrs[j].Name

\* C13: in every emitted definition of an element whose attributes have
\* pairwise distinct DTD names, the field names (XMLName, the attribute
\* fields, the child fields, Text) are pairwise distinct.
C13_FieldNamesDistinct ==
    Done =>
        \A s \in 1..Len(output.structs) :
            DistinctAttributes(output.structs[s].element) =>
                LET fields == output.structs[s].fields
                IN \A i, j \in 1..Len(fields) : i # j => fields[i].name # fields[j].name

====
